---------------------------- MODULE Spec2Model ----------------------------
(***************************************************************************)
(* Model of gh_space_shooter/game/game_state.py: the GameState aggregate   *)
(* (ship, enemies, bullets, explosions), its construction from a           *)
(* contribution grid and its operations shoot / ship.move_to / animate.    *)
(*                                                                         *)
(* Positions that are floats in the source are kept in fixed point:        *)
(* Scale units per grid cell.  Columns (enemy.x, bullet.x) and enemy rows  *)
(* are integers in the source and are kept in cells.                       *)
(*                                                                         *)
(* The Starfield member is not part of the state: nothing in Ship, Enemy,  *)
(* Bullet, Explosion or GameState reads it.                                *)
(***************************************************************************)
EXTENDS Integers, Sequences, FiniteSets, TLC

(***************************************************************************)
(* Fixed-point unit for the float attributes (ship.x, bullet.y).           *)
(***************************************************************************)
Scale == 4

(***************************************************************************)
(* Constants imported from ..constants (game_state.py line 9).  The module *)
(* that sets them is not among the sources; the values are instances, in   *)
(* rows (NUM_DAYS), cells (SHIP_POSITION_Y), frames (cooldown) and units   *)
(* per frame (speeds).                                                     *)
(***************************************************************************)
NUM_DAYS == 2
SHIP_POSITION_Y == 3
SHIP_SPEED == 3
BULLET_SPEED == 3
SHIP_SHOOT_COOLDOWN_FRAMES == 2

(***************************************************************************)
(* Literals of game_state.py.                                              *)
(***************************************************************************)
SHIP_START_X == 25
BULLET_EXIT_Y == -10
SMALL_MAX_FRAMES == 6
LARGE_MAX_FRAMES == 10

(***************************************************************************)
(* Bounds of the model.                                                    *)
(***************************************************************************)
MaxShots == 2
MaxLevel == 2
MaxWeeksIn == 2

\* frame loop: the maximum frame count
MAX_FRAMES == 80

VARIABLES
    grid,        \* contribution_data["weeks"]: sequence of weeks, each a sequence of levels
    built,       \* TRUE once GameState.__init__ has run
    ship,        \* [x, target_x, shoot_cooldown]; x and target_x in units
    enemies,     \* GameState.enemies: sequence of [x, y, health]
    bullets,     \* GameState.bullets: sequence of [id, x, y]; y in units
    explosions,  \* GameState.explosions: sequence of [id, x, y, size, frame]
    destroyed,   \* Enemy objects no longer in GameState.enemies (history)
    shots,       \* number of Bullet objects constructed so far
    nexp,        \* number of Explosion objects constructed so far
    err,         \* "none", or the exception that ended the run
    last,        \* record of the last operation (history)
    sinceShot,   \* animate() calls since the last shoot(), counted up to the cooldown (history)
    frames,      \* frames the frame loop has produced
    api          \* the web app: the request being served and its outcome

vars == <<grid, built, ship, enemies, bullets, explosions, destroyed, shots, nexp, err, last,
          sinceShot, frames, api>>

--------------------------------------------------------------------------
(* Helpers *)

Abs(n) == IF n < 0 THEN -n ELSE n

Min(a, b) == IF a <= b THEN a ELSE b

Max(a, b) == IF a >= b THEN a ELSE b

\* round(x), to the nearest integer, of a value in 1/Scale units
PyRound(u) == IF u >= 0 THEN (2 * u + Scale) \div (2 * Scale)
              ELSE -((2 * (-u) + Scale) \div (2 * Scale))

\* Python int() on a float: truncation toward zero; argument in units, result in cells.
PyInt(u) == IF u >= 0 THEN u \div Scale ELSE -((-u) \div Scale)

\* list.remove(x) for an x that is in the list: drop its first occurrence.
RECURSIVE RemoveFirst(_, _)
RemoveFirst(s, e) ==
    IF s = <<>> THEN <<>>
    ELSE IF Head(s) = e THEN Tail(s)
    ELSE <<Head(s)>> \o RemoveFirst(Tail(s), e)

InSeq(s, e) == \E i \in 1..Len(s) : s[i] = e

SeqIds(s) == [i \in 1..Len(s) |-> s[i].id]

Count(s, e) == Cardinality({i \in 1..Len(s) : s[i] = e})

\* Sequencing of statements: the value of v, then F applied to it.
Then(v, F(_)) == CHOOSE r \in {F(x) : x \in {v}} : TRUE

--------------------------------------------------------------------------
(* GameState.__init__ and _initialize_enemies *)

SkipLevelNegativeOnly(level) == level < 0

\* _initialize_enemies: "if level <= 0: continue"
SkipLevel(level) == level <= 0

\* inner loop of _initialize_enemies: enumerate(week["days"])
RECURSIVE DaysLoop(_, _, _, _)
DaysLoop(week, week_idx, d, acc) ==
    IF d > Len(week) THEN acc
    ELSE LET level == week[d] IN
         IF SkipLevel(level) THEN DaysLoop(week, week_idx, d + 1, acc)
         ELSE DaysLoop(week, week_idx, d + 1,
                  Append(acc, [x |-> week_idx, y |-> d - 1, health |-> level]))

\* outer loop of _initialize_enemies: enumerate(weeks)
RECURSIVE WeeksLoop(_, _, _)
WeeksLoop(weeks, w, acc) ==
    IF w > Len(weeks) THEN acc
    ELSE WeeksLoop(weeks, w + 1, DaysLoop(weeks[w], w - 1, 1, acc))

InitializeEnemies(weeks) == WeeksLoop(weeks, 1, <<>>)

\* Ship.__init__
NewShip == [x |-> SHIP_START_X * Scale,
            target_x |-> SHIP_START_X * Scale,
            shoot_cooldown |-> 0]

\* the history record when no operation has run yet
NoOp == [op |-> "none"]

\* the web app before any request
NoRequest == [path |-> "none"]

--------------------------------------------------------------------------
(* Explosion *)

\* Explosion.__init__: max_frames = 6 if size == "small" else 10
MaxFrames(size) == IF size = "small" THEN SMALL_MAX_FRAMES ELSE LARGE_MAX_FRAMES

\* Explosion.__init__ that ignores the size it is given
NewExplosionSmall(id, x, y, size) ==
    [id |-> id, x |-> x, y |-> y, size |-> "small", frame |-> 0]

\* Explosion.__init__; the id is the object's identity
NewExplosion(id, x, y, size) ==
    [id |-> id, x |-> x, y |-> y, size |-> size, frame |-> 0]

ExplosionDoneLate(frame, size) == frame > MaxFrames(size)

\* Explosion.animate: "if self.frame >= self.max_frames"
ExplosionDone(frame, size) == frame >= MaxFrames(size)

\* Explosion.animate that does not advance the frame counter
ExplosionAnimateStuck(g, i) ==
    [g EXCEPT !.eAnim = Append(@, g.explosions[i].id)]

\* Explosion.animate on the object at index i of g.explosions
ExplosionAnimate(g, i) ==
    LET e  == g.explosions[i]
        e2 == [e EXCEPT !.frame = @ + 1]
        g1 == [g EXCEPT !.explosions[i] = e2,
                        !.eAnim = Append(@, e.id)]
    IN  IF ExplosionDone(e2.frame, e2.size)
        THEN [g1 EXCEPT !.explosions = RemoveFirst(@, e2),
                        !.eGone = Append(@, e2)]
        ELSE g1

--------------------------------------------------------------------------
(* Enemy *)

DestroyedBelowZero(health) == health < 0

DestroyedAtOne(health) == health <= 1

\* Enemy.take_damage: "if self.health <= 0"
Destroyed(health) == health <= 0

\* Enemy.take_damage on the object at index k of g.enemies
TakeDamage(g, k) ==
    LET e  == g.enemies[k]
        e2 == [e EXCEPT !.health = @ - 1]
        g1 == [g EXCEPT !.enemies[k] = e2,
                        !.hits = Append(@, <<e.x, e.y>>)]
    IN  IF Destroyed(e2.health)
        THEN [g1 EXCEPT
                !.explosions = Append(@, NewExplosion(g.nexp + 1, e.x, e.y * Scale, "large")),
                !.nexp = @ + 1,
                !.enemies = RemoveFirst(@, e2),
                !.destroyed = @ \cup {e2}]
        ELSE g1

--------------------------------------------------------------------------
(* Bullet *)

\* Bullet.__init__: y starts at SHIP_POSITION_Y - 1
NewBullet(id, x) == [id |-> id, x |-> x, y |-> (SHIP_POSITION_Y - 1) * Scale]

\* _check_collision without the test of the column
RECURSIVE CheckCollisionAnyColumn(_, _, _, _)
CheckCollisionAnyColumn(en, k, bx, by) ==
    IF k > Len(en) THEN 0
    ELSE IF en[k].y * Scale >= by THEN k
    ELSE CheckCollisionAnyColumn(en, k + 1, bx, by)

\* _check_collision with the comparison of the rows turned around
RECURSIVE CheckCollisionBehind(_, _, _, _)
CheckCollisionBehind(en, k, bx, by) ==
    IF k > Len(en) THEN 0
    ELSE IF en[k].x = bx /\ en[k].y * Scale <= by THEN k
    ELSE CheckCollisionBehind(en, k + 1, bx, by)

\* Bullet._check_collision: index of the first enemy, in list order, with
\* enemy.x == self.x and enemy.y >= self.y; 0 stands for None
RECURSIVE CheckCollisionFrom(_, _, _, _)
CheckCollisionFrom(en, k, bx, by) ==
    IF k > Len(en) THEN 0
    ELSE IF en[k].x = bx /\ en[k].y * Scale >= by THEN k
    ELSE CheckCollisionFrom(en, k + 1, bx, by)

CheckCollision(en, bx, by) == CheckCollisionFrom(en, 1, bx, by)

BulletExitLate(y) == y < (BULLET_EXIT_Y - 1) * Scale

\* Bullet.animate: "if self.y < -10"
BulletExit(y) == y < BULLET_EXIT_Y * Scale

\* self.game_state.bullets.remove(self): ValueError when self is not in the list
RemoveBullet(g, b) ==
    IF InSeq(g.bullets, b)
    THEN [g EXCEPT !.bullets = RemoveFirst(@, b), !.bRem = Append(@, b.id)]
    ELSE [g EXCEPT !.err = "ValueError", !.bRem = Append(@, b.id)]

\* Bullet.animate on the object at index i of g.bullets
BulletAnimate(g, i) ==
    LET b   == g.bullets[i]
        b2  == [b EXCEPT !.y = @ - BULLET_SPEED]
        hit == CheckCollision(g.enemies, b2.x, b2.y)
        g1  == [g EXCEPT !.bullets[i] = b2, !.bAnim = Append(@, b.id),
                         !.checks = Append(@, [id |-> b.id, x |-> b2.x, y0 |-> b.y, y |-> b2.y,
                                               en |-> g.enemies, hit |-> hit])]
        g2  == IF hit # 0
               THEN Then([g1 EXCEPT
                            !.explosions = Append(@, NewExplosion(g1.nexp + 1, b2.x, b2.y, "small")),
                            !.nexp = @ + 1,
                            !.bHit = Append(@, b.id)],
                         LAMBDA ga : Then(TakeDamage(ga, hit),
                                          LAMBDA gb : RemoveBullet(gb, b2)))
               ELSE g1
    IN  Then(g2, LAMBDA gc :
            IF BulletExit(b2.y)
            THEN RemoveBullet([gc EXCEPT !.bOut = Append(@, b.id)], b2)
            ELSE gc)

--------------------------------------------------------------------------
(* Ship *)

ShipStepUnclamped(x, target_x) ==
    IF x < target_x THEN x + SHIP_SPEED
    ELSE IF x > target_x THEN x - SHIP_SPEED
    ELSE x

\* Ship.animate, the position update
ShipStep(x, target_x) ==
    IF x < target_x THEN Min(x + SHIP_SPEED, target_x)
    ELSE IF x > target_x THEN Max(x - SHIP_SPEED, target_x)
    ELSE x

\* Ship.animate
ShipAnimate(s) ==
    [s EXCEPT !.x = ShipStep(s.x, s.target_x),
              !.shoot_cooldown = IF @ > 0 THEN @ - 1 ELSE @]

\* Ship.is_moving
IsMoving(s) == s.x # s.target_x

\* Ship.can_shoot answering one frame too early
CanShootEarly(s) == s.shoot_cooldown <= 1

\* Ship.can_shoot
CanShoot(s) == s.shoot_cooldown = 0

--------------------------------------------------------------------------
(* GameState *)

\* "for bullet in self.bullets: bullet.animate()" from list index i on.  The
\* list iterator holds an index into the live list; an exception ends the loop.
RECURSIVE BulletPass(_, _)
BulletPass(g, i) ==
    IF g.err # "none" \/ i > Len(g.bullets) THEN g
    ELSE Then(BulletAnimate(g, i), LAMBDA h : BulletPass(h, i + 1))

\* "for explosion in self.explosions: explosion.animate()" from list index i on
RECURSIVE ExplosionPass(_, _)
ExplosionPass(g, i) ==
    IF g.err # "none" \/ i > Len(g.explosions) THEN g
    ELSE Then(ExplosionAnimate(g, i), LAMBDA h : ExplosionPass(h, i + 1))

IsCompleteOneLeft == Len(enemies) <= 1

\* GameState.is_complete
IsComplete == Len(enemies) = 0

\* GameState.can_take_action
CanTakeAction == ~IsMoving(ship) /\ CanShoot(ship)

--------------------------------------------------------------------------
(* Inputs *)

\* a week of NUM_DAYS days, all of level 0
ZeroWeek == [d \in 1..NUM_DAYS |-> 0]

\* Grids of the simulation runs: well-formed levels 0..MaxLevel; the cells
\* that vary are those of the column the ship starts under, the columns
\* left of it are empty.
GameGrids ==
    { [w \in 1..(SHIP_START_X + 1) |-> IF w = SHIP_START_X + 1 THEN wk ELSE ZeroWeek] :
        wk \in [1..NUM_DAYS -> 0..MaxLevel] }

\* Columns a policy may pass to move_to; the last one is outside the grid.
MoveCols == {SHIP_START_X, SHIP_START_X + 1}

\* Valid columns of the grid: 0 .. number of weeks - 1
ValidCols == 0..(Len(grid) - 1)

--------------------------------------------------------------------------
(* Specification of a run: the state after construction, then any sequence *)
(* of shoot / move_to / animate calls.                                     *)

\* GameState.__init__
Init ==
    /\ grid \in GameGrids
    /\ built = TRUE
    /\ ship = NewShip
    /\ enemies = InitializeEnemies(grid)
    /\ bullets = <<>>
    /\ explosions = <<>>
    /\ destroyed = {}
    /\ shots = 0
    /\ nexp = 0
    /\ err = "none"
    /\ last = NoOp
    /\ sinceShot = 0
    /\ frames = 0
    /\ api = NoRequest

\* GameState.shoot
Shoot ==
    /\ built /\ err = "none"
    /\ shots < MaxShots
    /\ bullets' = Append(bullets, NewBullet(shots + 1, PyInt(ship.x)))
    /\ ship' = [ship EXCEPT !.shoot_cooldown = SHIP_SHOOT_COOLDOWN_FRAMES]
    /\ shots' = shots + 1
    /\ last' = [op |-> "shoot"]
    /\ sinceShot' = 0
    /\ UNCHANGED <<grid, built, enemies, explosions, destroyed, nexp, err, frames, api>>

\* Ship.move_to
MoveTo(c) ==
    /\ built /\ err = "none"
    /\ ship' = [ship EXCEPT !.target_x = c * Scale]
    /\ last' = [op |-> "move_to"]
    /\ UNCHANGED <<grid, built, enemies, bullets, explosions, destroyed, shots, nexp, err,
                   sinceShot, frames, api>>

\* the collections at the start of GameState.animate, with empty pass records
PassStart ==
    [enemies |-> enemies, bullets |-> bullets, explosions |-> explosions,
     destroyed |-> destroyed, nexp |-> nexp, err |-> err,
     bAnim |-> <<>>, bHit |-> <<>>, bOut |-> <<>>, bRem |-> <<>>, hits |-> <<>>,
     checks |-> <<>>, eAnim |-> <<>>, eGone |-> <<>>]

\* GameState.animate: starfield, ship, enemies (Enemy.animate is "pass"),
\* bullets, explosions
Animate ==
    /\ built /\ err = "none"
    /\ \E g1 \in {BulletPass(PassStart, 1)} : \E g2 \in {ExplosionPass(g1, 1)} :
           /\ ship' = ShipAnimate(ship)
           /\ enemies' = g2.enemies
           /\ bullets' = g2.bullets
           /\ explosions' = g2.explosions
           /\ destroyed' = g2.destroyed
           /\ nexp' = g2.nexp
           /\ err' = g2.err
           /\ last' = [op |-> "animate",
                       bStart |-> SeqIds(bullets), bAnim |-> g2.bAnim,
                       bHit |-> g2.bHit, bOut |-> g2.bOut, bRem |-> g2.bRem,
                       hits |-> g2.hits, checks |-> g2.checks,
                       eStart |-> SeqIds(g1.explosions), eAnim |-> g2.eAnim,
                       eGone |-> g2.eGone]
    /\ sinceShot' = Min(sinceShot + 1, SHIP_SHOOT_COOLDOWN_FRAMES)
    /\ UNCHANGED <<grid, built, shots, frames, api>>

Next ==
    \/ Shoot
    \/ \E c \in MoveCols : MoveTo(c)
    \/ Animate

Spec == Init /\ [][Next]_vars

\* The frame loop calls animate() once per frame, unconditionally.
LiveSpec == Spec /\ WF_vars(Animate)

--------------------------------------------------------------------------
(* A driver that issues a command only when can_take_action() is true, as
   the frame loop does: commands and animate() calls in any order, every
   command behind the can_take_action() test. *)

DriveShoot == CanTakeAction /\ Shoot

DriveMove(c) == CanTakeAction /\ MoveTo(c)

DriverNext ==
    \/ DriveShoot
    \/ \E c \in MoveCols : DriveMove(c)
    \/ Animate

DriverSpec == Init /\ [][DriverNext]_vars

--------------------------------------------------------------------------
(* The frame loop run against the column-sweep policy: while the game is
   not complete and the frame count is under MAX_FRAMES, one frame is
   "if can_take_action(), apply the policy's command; animate(); draw()". *)

\* grid whose only nonzero cell is column c, row r, with level h
ScenarioGrid(c, r, h) ==
    [w \in 1..(SHIP_START_X + 1) |->
        [d \in 1..NUM_DAYS |-> IF w = c + 1 /\ d = r + 1 THEN h ELSE 0]]

\* the scenarios run: the target in the leftmost column or under the ship
ScenarioCols == {0, SHIP_START_X}

ScenarioGrids ==
    {ScenarioGrid(c, r, h) : c \in ScenarioCols, r \in 0..(NUM_DAYS - 1), h \in 1..MaxLevel}

\* total health of the enemies of en in column c
RECURSIVE ColumnHealth(_, _)
ColumnHealth(en, c) ==
    IF en = <<>> THEN 0
    ELSE (IF Head(en).x = c THEN Head(en).health ELSE 0) + ColumnHealth(Tail(en), c)

\* bullets in flight in column c
InFlight(c) == Cardinality({i \in 1..Len(bullets) : bullets[i].x = c})

\* Column-sweep policy: take the leftmost column that still holds an enemy,
\* move under it, and shoot once per point of health left in the column.
SweepCommand ==
    IF enemies = <<>> THEN [cmd |-> "idle"]
    ELSE LET c == enemies[1].x IN
         IF ship.x # c * Scale THEN [cmd |-> "move", x |-> c]
         ELSE IF InFlight(c) < ColumnHealth(enemies, c) THEN [cmd |-> "shoot"]
         ELSE [cmd |-> "idle"]

\* the loop is at the top of a frame and its condition holds
FrameTop == last.op \in {"none", "frame"} /\ ~IsComplete /\ frames < MAX_FRAMES

\* the policy has a command and the game accepts one
FrameActs == CanTakeAction /\ SweepCommand.cmd # "idle"

FrameCommand ==
    /\ FrameTop /\ FrameActs
    /\ \/ SweepCommand.cmd = "move" /\ MoveTo(SweepCommand.x)
       \/ SweepCommand.cmd = "shoot" /\ Shoot

FrameAdvance ==
    /\ \/ last.op \in {"move_to", "shoot"}
       \/ FrameTop /\ ~FrameActs
    /\ Animate

\* GameState.draw, and the frame handed on
FrameYield ==
    /\ last.op = "animate"
    /\ frames' = frames + 1
    /\ last' = [op |-> "frame"]
    /\ UNCHANGED <<grid, built, ship, enemies, bullets, explosions, destroyed, shots, nexp,
                   err, sinceShot, api>>

SweepInit ==
    /\ grid \in ScenarioGrids
    /\ built = TRUE
    /\ ship = NewShip
    /\ enemies = InitializeEnemies(grid)
    /\ bullets = <<>>
    /\ explosions = <<>>
    /\ destroyed = {}
    /\ shots = 0
    /\ nexp = 0
    /\ err = "none"
    /\ last = NoOp
    /\ sinceShot = 0
    /\ frames = 0
    /\ api = NoRequest

SweepNext == FrameCommand \/ FrameAdvance \/ FrameYield

\* the loop runs on while a frame is due
SweepSpec == SweepInit /\ [][SweepNext]_vars /\ WF_vars(SweepNext)

--------------------------------------------------------------------------
(* Specification of construction: GameState(contribution_data) for any     *)
(* grid of the bounded input set, malformed levels included.               *)

\* Levels a cell of the input may carry: -1 and 5 are outside 0..4
InputLevels == {-1, 0, 1, 4, 5}

InputGrids ==
    UNION { [1..n -> [1..NUM_DAYS -> InputLevels]] : n \in 1..MaxWeeksIn }

InitNew ==
    /\ grid \in InputGrids
    /\ built = FALSE
    /\ ship = NewShip
    /\ enemies = <<>>
    /\ bullets = <<>>
    /\ explosions = <<>>
    /\ destroyed = {}
    /\ shots = 0
    /\ nexp = 0
    /\ err = "none"
    /\ last = NoOp
    /\ sinceShot = 0
    /\ frames = 0
    /\ api = NoRequest

\* GameState.__init__
Construct ==
    /\ ~built
    /\ built' = TRUE
    /\ ship' = NewShip
    /\ enemies' = InitializeEnemies(grid)
    /\ bullets' = <<>>
    /\ explosions' = <<>>
    /\ last' = [op |-> "construct"]
    /\ UNCHANGED <<grid, destroyed, shots, nexp, err, sinceShot, frames, api>>

NextNew == Construct

SpecNew == InitNew /\ [][NextNew]_vars

--------------------------------------------------------------------------
(* The web app (app/src/main.py): the /api/generate handler and
   generate_animation, with the collaborators' outcomes as inputs. *)

\* STRATEGY_MAP: identifier -> strategy class
STRATEGY_MAP == [column |-> "ColumnStrategy", row |-> "RowStrategy", random |-> "RandomStrategy"]

\* STRATEGY_MAP.get(strategy, RandomStrategy)
StrategyMapGet(strategy) ==
    IF strategy \in DOMAIN STRATEGY_MAP THEN STRATEGY_MAP[strategy] ELSE "RandomStrategy"

\* strategy identifiers a caller may pass: the three known ones and two unknown
StrategyIds == {"column", "row", "random", "diagonal", ""}

\* values of GH_TOKEN: unset or set
Tokens == {"", "token"}

OutputFormats == {"gif", "webp"}

\* what GitHubClient.get_contribution_graph does
FetchOutcomes == {"ok", "GitHubAPIError"}

\* what resolving the provider, running the animator and encoding do
EncodeOutcomes == {"ok", "ValueError", "Exception"}

\* generate_animation: fetch, select the strategy class, animate and encode;
\* policy is the class the animation ran with, "none" when none was selected
GenerateAnimation(strategy, format, fetch, enc) ==
    IF fetch # "ok" THEN [raised |-> fetch, policy |-> "none", media_type |-> "none"]
    ELSE LET strategy_class == StrategyMapGet(strategy) IN
         IF enc # "ok" THEN [raised |-> enc, policy |-> strategy_class, media_type |-> "none"]
         ELSE [raised |-> "none", policy |-> strategy_class, media_type |-> format]

\* the status the handler turns an exception of generate_animation into
StatusOf(raised) ==
    IF raised = "none" THEN 200
    ELSE IF raised \in {"ValueError", "GitHubAPIError"} THEN 400
    ELSE 500

\* GET /api/generate
Generate(token, strategy, format, fetch, enc) ==
    IF token = "" THEN [status |-> 500, policy |-> "none", generated |-> FALSE]
    ELSE IF strategy \notin DOMAIN STRATEGY_MAP
         THEN [status |-> 400, policy |-> "none", generated |-> FALSE]
    ELSE LET r == GenerateAnimation(strategy, format, fetch, enc) IN
         [status |-> StatusOf(r.raised), policy |-> r.policy, generated |-> r.raised = "none"]

CallGenerate ==
    \E token \in Tokens, strategy \in StrategyIds, format \in OutputFormats,
       fetch \in FetchOutcomes, enc \in EncodeOutcomes :
        /\ api' = [path |-> "/api/generate", token |-> token, strategy |-> strategy,
                   format |-> format, fetch |-> fetch, enc |-> enc,
                   out |-> Generate(token, strategy, format, fetch, enc)]
        /\ UNCHANGED <<grid, built, ship, enemies, bullets, explosions, destroyed, shots, nexp,
                       err, last, sinceShot, frames>>

\* generate_animation called by another caller than the handler
CallGenerateAnimation ==
    \E strategy \in StrategyIds, format \in OutputFormats,
       fetch \in FetchOutcomes, enc \in EncodeOutcomes :
        /\ LET r == GenerateAnimation(strategy, format, fetch, enc) IN
               api' = [path |-> "generate_animation", token |-> "token", strategy |-> strategy,
                       format |-> format, fetch |-> fetch, enc |-> enc,
                       out |-> [status |-> StatusOf(r.raised), policy |-> r.policy,
                                generated |-> r.raised = "none"]]
        /\ UNCHANGED <<grid, built, ship, enemies, bullets, explosions, destroyed, shots, nexp,
                       err, last, sinceShot, frames>>

ApiInit ==
    /\ grid = ScenarioGrid(0, 0, 2)
    /\ built = TRUE
    /\ ship = NewShip
    /\ enemies = InitializeEnemies(grid)
    /\ bullets = <<>>
    /\ explosions = <<>>
    /\ destroyed = {}
    /\ shots = 0
    /\ nexp = 0
    /\ err = "none"
    /\ last = NoOp
    /\ sinceShot = 0
    /\ frames = 0
    /\ api = NoRequest

ApiNext == CallGenerate \/ CallGenerateAnimation

ApiSpec == ApiInit /\ [][ApiNext]_vars

--------------------------------------------------------------------------
(* Claims *)

\* the values of a sequence
Range(s) == {s[i] : i \in 1..Len(s)}

\* the Enemy objects at cell (x, y), active or removed
EnemyAt(en, gone, x, y) ==
    LET act == {en[i] : i \in {j \in 1..Len(en) : en[j].x = x /\ en[j].y = y}}
        rem == {e \in gone : e.x = x /\ e.y = y}
    IN  act \cup rem

(***************************************************************************)
(* C1: in every GameState.animate() call, each bullet in the bullets list  *)
(* when the bullet pass starts and each explosion in the explosions list   *)
(* when the explosion pass starts is animated exactly once, also when      *)
(* another member removes itself from the list during the pass.            *)
(***************************************************************************)
C1_EachAnimatedExactlyOnce ==
    last.op = "animate" =>
        /\ \A id \in Range(last.bStart) : Count(last.bAnim, id) = 1
        /\ \A id \in Range(last.eStart) : Count(last.eAnim, id) = 1

(***************************************************************************)
(* C2: a bullet that registers a hit, or whose y is below the exit         *)
(* threshold -10, is removed from the bullets list in that same animate(): *)
(* one remove call for it, none on a bullet already absent (ValueError),   *)
(* and it is not in the list when the step ends.                           *)
(***************************************************************************)
C2_BulletRemovedInStepOnce ==
    /\ err = "none"
    /\ \A i \in 1..Len(bullets) : ~(bullets[i].y < -10 * Scale)
    /\ last.op = "animate" =>
          \A id \in Range(last.bHit) \cup Range(last.bOut) :
              /\ Count(last.bRem, id) = 1
              /\ id \notin Range(SeqIds(bullets))

C2_Witness ==
    /\ last.op = "animate"
    /\ last.bHit # <<>>
    /\ bullets # <<>>

\* the exit case of C2 is reached as well
C2_WitnessExit ==
    /\ last.op = "animate"
    /\ last.bOut # <<>>

C3_HealthInv ==
    /\ \A i \in 1..Len(enemies) : enemies[i].health > 0
    /\ \A e \in destroyed : e.health = 0
    /\ \A w \in 1..Len(grid) : \A d \in 1..Len(grid[w]) :
          Cardinality(EnemyAt(enemies, destroyed, w - 1, d - 1))
              = (IF grid[w][d] > 0 THEN 1 ELSE 0)

C3_HealthStep ==
    /\ destroyed \subseteq destroyed'
    /\ \A i \in 1..Len(enemies) :
          LET e == enemies[i]
              n == IF last'.op = "animate" THEN Count(last'.hits, <<e.x, e.y>>) ELSE 0
          IN  \A f \in EnemyAt(enemies', destroyed', e.x, e.y) :
                  /\ f.health = e.health - n
                  /\ f.health <= e.health
    /\ last'.op = "animate" => Len(last'.hits) = Len(last'.bHit)

(***************************************************************************)
(* C3: the health of every target never increases, drops by exactly 1 per  *)
(* resolved hit, is never negative, and the target is in the enemies list  *)
(* iff its health is > 0 (at health 0 it leaves the list in that step).    *)
(***************************************************************************)
C3_Health == [](C3_HealthInv) /\ [][C3_HealthStep]_vars

C3_Witness ==
    /\ destroyed # {}
    /\ last.op = "animate"
    /\ \E i \in 1..Len(enemies) :
          /\ <<enemies[i].x, enemies[i].y>> \in Range(last.hits)
          /\ enemies[i].health = grid[enemies[i].x + 1][enemies[i].y + 1] - 1

(***************************************************************************)
(* C4: a shoot() requested while the ship's cooldown is > 0 is rejected    *)
(* with an Invalid-Command error: no bullet is appended and the cooldown   *)
(* is left as it was.                                                      *)
(***************************************************************************)
C4_ShootInCooldownRejected ==
    [][(last'.op = "shoot" /\ ship.shoot_cooldown > 0) =>
          /\ err' = "InvalidCommand"
          /\ bullets' = bullets
          /\ ship'.shoot_cooldown = ship.shoot_cooldown]_vars

(***************************************************************************)
(* C5: a move_to() to a column outside 0 .. max-column is rejected with an *)
(* Invalid-Command error; the ship's target column is always one of the    *)
(* grid's valid columns.                                                   *)
(***************************************************************************)
C5_TargetColumnInGrid ==
    \E c \in ValidCols : ship.target_x = c * Scale

Malformed(weeks) ==
    \E w \in 1..Len(weeks) : \E d \in 1..Len(weeks[w]) :
        weeks[w][d] < 0 \/ weeks[w][d] > 4

(***************************************************************************)
(* C6: constructing the state from a grid with a cell of level < 0 or > 4  *)
(* fails with an Invalid-Input error before any entity is constructed; no  *)
(* enemy ever has a health outside 1..4.                                   *)
(***************************************************************************)
C6_MalformedGridRejected ==
    built =>
        /\ Malformed(grid) => (err = "InvalidInput" /\ enemies = <<>>)
        /\ \A i \in 1..Len(enemies) : enemies[i].health \in 1..4

PositiveCells(weeks) ==
    {c \in UNION {{<<w, d>> : d \in 1..Len(weeks[w])} : w \in 1..Len(weeks)} :
        weeks[c[1]][c[2]] > 0}

(***************************************************************************)
(* C7: right after construction there is one target per cell of level > 0, *)
(* at the cell's (week index, day index), with health equal to the cell's  *)
(* level; a cell of level 0 has no target.                                 *)
(***************************************************************************)
C7_InitialTargets ==
    (built /\ last.op \in {"none", "construct"}) =>
        /\ Len(enemies) = Cardinality(PositiveCells(grid))
        /\ \A c \in PositiveCells(grid) :
              Count(enemies, [x |-> c[1] - 1, y |-> c[2] - 1, health |-> grid[c[1]][c[2]]]) = 1
        /\ \A i \in 1..Len(enemies) :
              <<enemies[i].x + 1, enemies[i].y + 1>> \in PositiveCells(grid)

C7_Witness ==
    /\ built
    /\ last.op = "construct"
    /\ Len(enemies) = 2
    /\ Len(grid) = 2
    /\ \E w \in 1..Len(grid) : \E d \in 1..Len(grid[w]) : grid[w][d] = 0

C8_CompleteInv ==
    IsComplete <=>
        \A c \in PositiveCells(grid) :
            \E e \in destroyed : e.x = c[1] - 1 /\ e.y = c[2] - 1

(***************************************************************************)
(* C8: is_complete() is true exactly when no target remains: from an       *)
(* all-zero grid it is true right after construction, it is false while a  *)
(* target of the grid has not been destroyed, and once true it stays true  *)
(* under every later shoot / move_to / animate.                            *)
(***************************************************************************)
C8_Complete ==
    /\ [](C8_CompleteInv)
    /\ [][IsComplete => IsComplete']_vars
    /\ [][Len(enemies') <= Len(enemies)]_vars

C8_Witness ==
    /\ IsComplete
    /\ destroyed # {}
    /\ last.op = "shoot"

C9_MaxAge(size) == IF size = "small" THEN 6 ELSE 10

(***************************************************************************)
(* C9: an explosion leaves the explosions list in the animate() in which   *)
(* its frame counter reaches its max (6 for "small", 10 for "large"), not  *)
(* before and not after: every explosion in the list has a frame counter   *)
(* below its max, and one that leaves has it equal to its max.             *)
(***************************************************************************)
C9_ExplosionAge ==
    /\ \A i \in 1..Len(explosions) :
          /\ explosions[i].size \in {"small", "large"}
          /\ explosions[i].frame >= 0
          /\ explosions[i].frame < C9_MaxAge(explosions[i].size)
    /\ last.op = "animate" =>
          /\ \A e \in Range(last.eGone) :
                /\ e.frame = C9_MaxAge(e.size)
                /\ e.id \notin Range(SeqIds(explosions))
          /\ \A id \in Range(last.eAnim) :
                id \in Range(SeqIds(explosions)) \/ id \in {e.id : e \in Range(last.eGone)}

C9_Witness ==
    /\ last.op = "animate"
    /\ \E e \in Range(last.eGone) : e.size = "large"
    /\ explosions # <<>>

C10_ShipStep ==
    last'.op = "animate" =>
        /\ Abs(ship'.x - ship'.target_x) <= Abs(ship.x - ship.target_x)
        /\ ship.x <= ship.target_x => ship'.x <= ship'.target_x
        /\ ship.x >= ship.target_x => ship'.x >= ship'.target_x
        /\ ship.x # ship.target_x =>
              Abs(ship'.x - ship'.target_x) < Abs(ship.x - ship.target_x)

(***************************************************************************)
(* C10: across Ship.animate() calls with no move_to() in between, the      *)
(* distance |x - target_x| does not grow, x never passes target_x, and the *)
(* distance reaches 0, after which is_moving() is false.                   *)
(***************************************************************************)
C10_ShipReachesTarget ==
    /\ [][C10_ShipStep]_vars
    /\ IsMoving(ship) ~> (~IsMoving(ship) \/ last.op = "move_to")

C10_Witness ==
    /\ last.op = "animate"
    /\ ~IsMoving(ship)
    /\ ship.x # SHIP_START_X * Scale

--------------------------------------------------------------------------
\* the cooldown counter is a frame count between 0 and the cooldown length
C11_CooldownRange == ship.shoot_cooldown \in 0..SHIP_SHOOT_COOLDOWN_FRAMES

\* a shot that follows an earlier shot comes after a full cooldown of animate() calls
C11_ShotGap ==
    (shots' = shots + 1 /\ shots > 0) => sinceShot >= SHIP_SHOOT_COOLDOWN_FRAMES

(* C11: the ship's cooldown counter always stays within
   0..SHIP_SHOOT_COOLDOWN_FRAMES, and when the driver shoots only while
   can_take_action() is true, at least SHIP_SHOOT_COOLDOWN_FRAMES animate()
   calls lie between any two consecutive shots. *)
C11_CooldownGap == []C11_CooldownRange /\ [][C11_ShotGap]_vars

\* a second shot has just been fired by the gated driver
C11_Witness == shots = 2 /\ last.op = "shoot" /\ sinceShot = 0

--------------------------------------------------------------------------
\* the grid's only nonzero cell is column 0, row 0, with level 2
C12_Scenario == grid = ScenarioGrid(0, 0, 2)

\* the health of the scenario's only target; 0 once it is removed
C12_Health == IF enemies = <<>> THEN 0 ELSE enemies[1].health

\* frames the ship needs from its start column to column 0
C12_TravelFrames == (SHIP_START_X * Scale + SHIP_SPEED - 1) \div SHIP_SPEED

C12_FrameBound == (SHIP_SHOOT_COOLDOWN_FRAMES + C12_TravelFrames) * 2

(* C12: with the grid whose only nonzero cell is column 0, row 0, level 2,
   and the frame loop run with the column-sweep policy, the game becomes
   complete, the frame count never passes (cooldown + travel time) * 2,
   and the target's health starts at 2 and changes only by going down by
   one: its trace is 2, 1, 0. *)
C12_SweepCompletes ==
    /\ (C12_Scenario => C12_Health = 2)
    /\ [][C12_Scenario => C12_Health' \in {C12_Health, C12_Health - 1}]_vars
    /\ [](C12_Scenario => frames <= C12_FrameBound)
    /\ <>(C12_Scenario => IsComplete)

\* the scenario's run has ended with the target destroyed by its second hit
C12_Witness ==
    /\ C12_Scenario /\ IsComplete /\ shots = 2
    /\ ship.x = 0 /\ \E e \in destroyed : e.x = 0 /\ e.y = 0

--------------------------------------------------------------------------
(* C13: on every path that selects a policy, the /api/generate handler and
   generate_animation, a strategy identifier outside STRATEGY_MAP is
   rejected: no policy is selected for it and no animation is generated. *)
C13_UnknownStrategyRejected ==
    (api.path # "none" /\ api.strategy \notin DOMAIN STRATEGY_MAP) =>
        (api.out.policy = "none" /\ ~api.out.generated)

--------------------------------------------------------------------------
\* a shoot() step: one bullet b appended at the end of bullets, at row
\* SHIP_POSITION_Y - 1, the cooldown reset, and, when can_take_action()
\* held, b in the ship's target column
C14_ShotAppended(b) ==
    /\ bullets' = Append(bullets, b)
    /\ b.y = (SHIP_POSITION_Y - 1) * Scale
    /\ ship'.shoot_cooldown = SHIP_SHOOT_COOLDOWN_FRAMES
    /\ CanTakeAction => b.x * Scale = ship.target_x

\* column c is a nearest integer to position u
C14_Nearest(c, u) == 2 * Abs(c * Scale - u) <= Scale

\* column c is position u with its fraction dropped
C14_Truncated(c, u) ==
    IF u >= 0 THEN c * Scale <= u /\ u < (c + 1) * Scale
    ELSE c * Scale >= u /\ u > (c - 1) * Scale

(* C14 as stated: shoot() appends exactly one bullet at the end of
   bullets, in the column that is the nearest integer to ship.x, at row
   SHIP_POSITION_Y - 1, and resets the cooldown to
   SHIP_SHOOT_COOLDOWN_FRAMES; when can_take_action() holds the bullet's
   column is the ship's target column. *)
C14_ShootNearestColumn ==
    [][shots' = shots + 1 =>
         /\ Len(bullets') = Len(bullets) + 1
         /\ C14_ShotAppended(bullets'[Len(bullets')])
         /\ C14_Nearest(bullets'[Len(bullets')].x, ship.x)]_vars

(* C14, amended: shoot() appends exactly one bullet at the end of bullets,
   in the column int(ship.x), which is ship.x with its fraction dropped, at
   row SHIP_POSITION_Y - 1, and resets the cooldown to
   SHIP_SHOOT_COOLDOWN_FRAMES; when can_take_action() holds the bullet's
   column is the ship's target column. *)
C14_ShootTruncatedColumn ==
    [][shots' = shots + 1 =>
         /\ Len(bullets') = Len(bullets) + 1
         /\ C14_ShotAppended(bullets'[Len(bullets')])
         /\ C14_Truncated(bullets'[Len(bullets')].x, ship.x)]_vars

\* a bullet has just been fired while the ship was three quarters of the
\* way to the next column, and it is in the column the ship was leaving
C14_Witness ==
    /\ last.op = "shoot" /\ ship.x % Scale = 3
    /\ bullets # <<>> /\ bullets[Len(bullets)].x = ship.x \div Scale

--------------------------------------------------------------------------
\* ids of the explosions created during the step
C16_Spawned == (nexp + 1)..nexp'

\* the explosion pass starts after the bullet pass: every explosion the
\* bullets spawned is in the list when the explosion pass begins
C16_SpawnedBeforeExplosionPass == C16_Spawned \subseteq Range(last'.eStart)

\* every explosion spawned in the step has been aged once when the step ends
C16_SpawnedAged ==
    \A i \in 1..Len(explosions') :
        explosions'[i].id \in C16_Spawned => explosions'[i].frame = 1

\* the first bullet's collision check sees every enemy of the start of the
\* step, and a step without a bullet removes none
C16_EnemiesKeptUntilBullets ==
    IF last'.checks = <<>> THEN enemies' = enemies
    ELSE last'.checks[1].en = enemies

(* C16: animate() runs background, ship, enemies, bullets, explosions in
   that order: an explosion spawned by a bullet during the bullet pass is
   in the list when the explosion pass of the same step begins and has age
   1 when the step ends, and no enemy is removed before the bullet pass
   begins. *)
C16_AnimateOrder ==
    [][(last'.op = "animate" /\ last' # last) =>
         /\ C16_SpawnedBeforeExplosionPass
         /\ C16_SpawnedAged
         /\ C16_EnemiesKeptUntilBullets]_vars

--------------------------------------------------------------------------
\* enemy e is in the bullet's column, at or below the bullet's row
C17_Match(e, c) == e.x = c.x /\ e.y * Scale >= c.y

\* the list is in construction order: week-major, day ascending
C17_InOrder(en) ==
    \A i, j \in 1..Len(en) :
        i < j => (en[i].x < en[j].x \/ (en[i].x = en[j].x /\ en[i].y < en[j].y))

\* one collision check: made after the move, it returns the first enemy of
\* the list that matches, and none exactly when no enemy matches
C17_CheckFirst(c) ==
    /\ c.y = c.y0 - BULLET_SPEED
    /\ C17_InOrder(c.en)
    /\ c.hit = 0 <=> (\A k \in 1..Len(c.en) : ~C17_Match(c.en[k], c))
    /\ c.hit # 0 =>
          /\ c.hit \in 1..Len(c.en)
          /\ C17_Match(c.en[c.hit], c)
          /\ \A k \in 1..(c.hit - 1) : ~C17_Match(c.en[k], c)

\* the enemies the checks returned, in the order of the checks
RECURSIVE C17_Returned(_)
C17_Returned(checks) ==
    IF checks = <<>> THEN <<>>
    ELSE (IF Head(checks).hit = 0 THEN <<>>
          ELSE << <<Head(checks).en[Head(checks).hit].x, Head(checks).en[Head(checks).hit].y>> >>)
         \o C17_Returned(Tail(checks))

(* C17: in animate(), a bullet's collision check is made after the bullet
   moved up by BULLET_SPEED and returns the first enemy, in collection
   order (week-major, day ascending), whose column equals the bullet's and
   whose row is at or beyond the bullet's row, and None exactly when no
   active enemy satisfies that; each bullet makes at most one check in a
   step and the enemies damaged are exactly the ones the checks returned,
   one per bullet. *)
C17_FirstEnemyInOrder ==
    last.op = "animate" =>
        /\ \A i \in 1..Len(last.checks) : C17_CheckFirst(last.checks[i])
        /\ \A i, j \in 1..Len(last.checks) :
               i # j => last.checks[i].id # last.checks[j].id
        /\ last.hits = C17_Returned(last.checks)

\* a check has returned the second enemy of the list, passing over the first
C17_Witness ==
    /\ last.op = "animate"
    /\ \E i \in 1..Len(last.checks) : last.checks[i].hit >= 2

\* a check has returned None with enemies in the list
C17_WitnessNone ==
    /\ last.op = "animate"
    /\ \E i \in 1..Len(last.checks) :
          last.checks[i].hit = 0 /\ last.checks[i].en # <<>>

--------------------------------------------------------------------------
\* the enemies list after the hit of check c: the enemy returned has lost 1
\* health and is removed when that leaves it at 0 or less
C18_EnemiesAfter(c) ==
    IF c.hit = 0 THEN c.en
    ELSE IF c.en[c.hit].health - 1 <= 0
         THEN SubSeq(c.en, 1, c.hit - 1) \o SubSeq(c.en, c.hit + 1, Len(c.en))
         ELSE [c.en EXCEPT ![c.hit].health = @ - 1]

\* the effects the checks call for, in order: for each hit a "small" one at
\* the bullet's position, followed by a "large" one at the enemy's position
\* when the hit brings its health to 0
RECURSIVE C18_Effects(_)
C18_Effects(checks) ==
    IF checks = <<>> THEN <<>>
    ELSE LET c == Head(checks) IN
         (IF c.hit = 0 THEN <<>>
          ELSE <<[size |-> "small", x |-> c.x, y |-> c.y]>>
               \o (IF c.en[c.hit].health - 1 <= 0
                   THEN <<[size |-> "large", x |-> c.en[c.hit].x,
                           y |-> c.en[c.hit].y * Scale]>>
                   ELSE <<>>))
         \o C18_Effects(Tail(checks))

\* the explosions created during the step, as they stand in the list after it
C18_New == SelectSeq(explosions', LAMBDA e : e.id > nexp)

C18_HitStep ==
    LET cs  == last'.checks
        eff == C18_Effects(cs)
    IN  /\ nexp' = nexp + Len(eff)
        /\ Len(C18_New) = Len(eff)
        /\ \A i \in 1..Len(eff) :
              /\ C18_New[i].id = nexp + i
              /\ C18_New[i].size = eff[i].size
              /\ C18_New[i].x = eff[i].x
              /\ C18_New[i].y = eff[i].y
        /\ \A i \in 1..(Len(cs) - 1) : cs[i + 1].en = C18_EnemiesAfter(cs[i])
        /\ cs # <<>> => enemies' = C18_EnemiesAfter(cs[Len(cs)])

(* C18: in animate(), every hit appends exactly one "small" explosion at
   the bullet's position and takes exactly 1 health from the enemy hit; if
   that brings the health to 0, exactly one "large" explosion at the
   enemy's position is appended after the small one and the enemy is
   removed; nothing else creates an explosion, so a bullet that leaves
   past the exit row spawns none. *)
C18_HitEffects == [][(last'.op = "animate" /\ last' # last) => C18_HitStep]_vars

\* an animate() in which a hit destroyed an enemy: the small and the large
\* explosion are the last two of the list
C18_Witness ==
    /\ last.op = "animate" /\ last.hits # <<>>
    /\ Len(explosions) >= 2
    /\ explosions[Len(explosions)].size = "large"
    /\ explosions[Len(explosions)].id = nexp
    /\ explosions[Len(explosions) - 1].size = "small"
    /\ explosions[Len(explosions) - 1].id = nexp - 1

\* an animate() in which a bullet left past the exit row and no hit occurred
C18_WitnessExit ==
    /\ last.op = "animate" /\ last.bOut # <<>> /\ last.hits = <<>>

--------------------------------------------------------------------------
\* the claim's conditions: a bullet moves at most one row per step and
\* starts below every row of the grid
C19_Premise ==
    /\ BULLET_SPEED <= Scale
    /\ NUM_DAYS - 1 < SHIP_POSITION_Y - 1

\* the rows of the enemies of the list that are in the bullet's column
C19_ColumnRows(c) == {c.en[k].y : k \in {j \in 1..Len(c.en) : c.en[j].x = c.x}}

(* C19: with BULLET_SPEED at most one row per step and bullets starting
   below every row of the grid, the enemy a bullet hits is the active enemy
   of the bullet's column that is nearest to the ship: the one with the
   largest row among those in the list at the moment of the hit. *)
C19_HitsNearest ==
    C19_Premise /\
    (last.op = "animate" =>
        \A i \in 1..Len(last.checks) :
            LET c == last.checks[i] IN
            c.hit # 0 =>
                /\ c.en[c.hit].x = c.x
                /\ \A r \in C19_ColumnRows(c) : r <= c.en[c.hit].y)

\* a bullet has hit the nearer of two enemies of its column
C19_Witness ==
    /\ last.op = "animate"
    /\ \E i \in 1..Len(last.checks) :
          /\ last.checks[i].hit # 0
          /\ Cardinality(C19_ColumnRows(last.checks[i])) >= 2

--------------------------------------------------------------------------
\* bullet id is in flight
C20_BulletIn(id) == id \in Range(SeqIds(bullets))

\* explosion id is in the list
C20_ExplosionIn(id) == id \in Range(SeqIds(explosions))

(* C20: with animate() called again and again, every bullet fired and
   every explosion spawned is eventually removed from its collection,
   whatever other bullets and explosions are created or removed meanwhile. *)
C20_EventuallyRemoved ==
    /\ \A id \in 1..MaxShots : C20_BulletIn(id) ~> ~C20_BulletIn(id)
    /\ \A id \in 1..(2 * MaxShots) : C20_ExplosionIn(id) ~> ~C20_ExplosionIn(id)

\* the run is over: every shot was fired, explosions were spawned, and both
\* collections are empty again
C20_Witness ==
    /\ shots = MaxShots /\ nexp >= 2
    /\ bullets = <<>> /\ explosions = <<>>
    /\ last.op = "animate"

=============================================================================
